---- MODULE Spec2Model ----
(***************************************************************************)
(* Model of the publik chat server (src/main.rs): the identity registry,   *)
(* the session table, the reverse index, the authentication gate and the   *)
(* reload of the authorization file, with the tokio mutexes that guard     *)
(* them.  Every connection is one sequential handler task; the teardown    *)
(* spawned by Drop is a detached task.                                      *)
(***************************************************************************)
EXTENDS Integers, Sequences, FiniteSets, TLC

\* ---------------------------------------------------------------- bounds
\* number of connections the server accepts in a run
MaxId == 2
\* number of requests (channel opens, data events, pty requests) the clients
\* send in a run that holds a chat key, a submit, a Ctrl-C, an ignored payload
\* or a pty request
MaxEvents == 4
\* number of requests the clients send in a run of channel opens and Ctrl-r
\* only
MaxQuietEvents == 5
\* longest text typed into a textarea
MaxText == 1

\* ------------------------------------------------------------ the registry
Ids == 0 .. (MaxId - 1)

NoOne == -1

Keys == {"keyA", "keyB"}

\* authfile::Entity: an immutable value (name, role, key)
Entity(n, r, k) == [name |-> n, role |-> r, key |-> k]

\* the entities an authorization file of a run may list
EntityUniverse ==
    { Entity("alice", "Standard", "keyA"),
      Entity("alice", "Admin", "keyA"),
      Entity("bob", "Admin", "keyB") }

\* Entity::key_data
key_data(e) == e.key

KeysOf(entities) == { key_data(e) : e \in entities }

\* authfile::read, successful: the entity list and its key pool; one key
\* names at most one entity and the pool is the set of the entities' keys
Keychains ==
    { [entities |-> es, key_pool |-> KeysOf(es)] :
        es \in { s \in SUBSET EntityUniverse :
                   \A e1, e2 \in s : key_data(e1) = key_data(e2) => e1 = e2 } }

\* ------------------------------------------------------------- map helpers
MapInsert(m, k, v) == [x \in (DOMAIN m) \cup {k} |-> IF x = k THEN v ELSE m[x]]

MapRemove(m, k) == [x \in (DOMAIN m) \ {k} |-> m[x]]

EmptyMap == [x \in {} |-> 0]

\* entities.iter().map(|e| (e.key_data(), e.clone())).collect()
CollectByKey(entities) ==
    [k \in KeysOf(entities) |-> CHOOSE e \in entities : key_data(e) = k]

\* the ids of a Vec<usize>
Range(s) == { s[n] : n \in 1 .. Len(s) }

\* ------------------------------------------------------------------- locks
Locks == {"keychain", "key_data_pool", "key_data_to_id", "key_data_to_user",
          "clients", "id_to_user"}

VARIABLES
    keychain,          \* Vec<Arc<Entity>>, as a set
    key_data_pool,     \* HashSet<KeyData>
    key_data_to_user,  \* HashMap<KeyData, Arc<Entity>>
    key_data_to_id,    \* HashMap<KeyData, Vec<usize>>
    id_to_user,        \* HashMap<usize, Arc<Entity>>
    clients,           \* HashMap<usize, Client>
    history,           \* App.history
    server_id,         \* the listening AppServer's id: the next connection's id
    locks,             \* for each tokio Mutex, the connection that holds it
    pc,                \* each connection handler's position
    conn,              \* each connection: "none", "up" or "gone"
    auth_key,          \* the key a connection was accepted under, or "none"
    chan,              \* the channel of each connection's latest record
    opened,            \* number of channel_open_session calls of each connection
    teardown,          \* the connections whose spawned Drop task has not run
    local,             \* the locals of a running reload
    result,            \* what each connection's last handler returned
    renders,           \* the spawned redraws not yet run: for each captured
                       \* history, the number of tasks that hold it
    events,            \* number of requests the clients have sent
    mixed              \* whether one of them was not a channel open or Ctrl-r

vars == <<keychain, key_data_pool, key_data_to_user, key_data_to_id, id_to_user,
          clients, history, server_id, locks, pc, conn, auth_key, chan, opened,
          teardown, local, result, renders, events, mixed>>

registry == <<keychain, key_data_to_user, key_data_pool>>

sessions == <<clients, id_to_user, key_data_to_id>>

\* the order in which reload takes the mutexes
LockOrder == <<"keychain", "key_data_pool", "key_data_to_id", "key_data_to_user",
               "clients", "id_to_user">>

\* the six shared structures as a reload finds them when it has frozen them
Frozen ==
    [keychain |-> keychain, key_data_to_user |-> key_data_to_user,
     key_data_pool |-> key_data_pool, clients |-> clients,
     id_to_user |-> id_to_user, key_data_to_id |-> key_data_to_id]

NoFrozen ==
    [keychain |-> {}, key_data_to_user |-> EmptyMap, key_data_pool |-> {},
     clients |-> EmptyMap, id_to_user |-> EmptyMap, key_data_to_id |-> EmptyMap]

NoEntity == [name |-> "", role |-> "", key |-> "none"]

NoLocal == [key |-> "none", title |-> "", data |-> "", text |-> "",
            entity |-> NoEntity, held |-> 0,
            new_keychain |-> [entities |-> {}, key_pool |-> {}],
            strays |-> {}, stray |-> "none", ids |-> <<>>,
            old |-> NoFrozen, committed |-> FALSE]

\* what a handler returned: Ok, an Auth verdict or an Error
Result(kind) == [kind |-> kind, id |-> NoOne, line |-> 0]

\* the handler's task panicked at a line of main.rs
Panic(line) == [kind |-> "panic", id |-> NoOne, line |-> line]

\* an error that names no session
ClientDisconnectFailedAnonymous(id) ==
    [kind |-> "ClientDisconnectFailed", id |-> NoOne, line |-> 0]

\* Error::ClientDisconnectFailed(id)
ClientDisconnectFailed(id) == [kind |-> "ClientDisconnectFailed", id |-> id, line |-> 0]

\* main: the registry is read from the authorization file, the maps are empty
Init ==
    /\ \E k \in Keychains :
          /\ keychain = k.entities
          /\ key_data_pool = k.key_pool
          /\ key_data_to_user = CollectByKey(k.entities)
    /\ key_data_to_id = EmptyMap
    /\ id_to_user = EmptyMap
    /\ clients = EmptyMap
    /\ history = <<>>
    /\ server_id = 0
    /\ locks = [l \in Locks |-> NoOne]
    /\ pc = [i \in Ids |-> "idle"]
    /\ conn = [i \in Ids |-> "none"]
    /\ auth_key = [i \in Ids |-> "none"]
    /\ chan = [i \in Ids |-> "none"]
    /\ opened = [i \in Ids |-> 0]
    /\ teardown = {}
    /\ local = [i \in Ids |-> NoLocal]
    /\ result = [i \in Ids |-> Result("none")]
    /\ renders = EmptyMap
    /\ events = 0
    /\ mixed = FALSE

\* ------------------------------------------------------- shared helpers
Free(l) == locks[l] = NoOne

\* dropping every MutexGuard a handler holds (return or unwinding)
ReleaseAll(i) == [l \in Locks |-> IF locks[l] = i THEN NoOne ELSE locks[l]]

\* The handler of connection i ends with res (an Err or a panic): its guards
\* are dropped, the session ends and the handler is dropped, which spawns the
\* teardown task of Drop (lines 416-425).
EndSession(i, res) ==
    /\ locks' = ReleaseAll(i)
    /\ conn' = [conn EXCEPT ![i] = "gone"]
    /\ chan' = [chan EXCEPT ![i] = IF @ = "none" THEN "none" ELSE "closed"]
    /\ teardown' = teardown \cup {i}
    /\ pc' = [pc EXCEPT ![i] = "idle"]
    /\ local' = [local EXCEPT ![i] = NoLocal]
    /\ result' = [result EXCEPT ![i] = res]

Idle(i) == conn[i] = "up" /\ pc[i] = "idle"

\* ------------------------------------------------------------ new_client
\* Server::new_client: the handler is a clone carrying the current id
NewClient ==
    /\ server_id < MaxId
    /\ conn' = [conn EXCEPT ![server_id] = "up"]
    /\ server_id' = server_id + 1
    /\ UNCHANGED <<mixed, registry, sessions, history, locks, pc, auth_key, chan, opened,
                   teardown, local, result, events, renders>>

\* -------------------------------------------------------- auth_publickey
\* id_to_user.insert(self.id, entity.clone())
BindEntity(m, id, entity) == MapInsert(m, id, entity)

\* an insert that replaces the ids already listed under the key
PushIdOverwrites(m, key, id) == MapInsert(m, key, <<id>>)

\* key_data_to_id.entry(key).or_default().push(self.id)
PushId(m, key, id) ==
    MapInsert(m, key, IF key \in DOMAIN m THEN Append(m[key], id) ELSE <<id>>)

\* line 307: a connection that is not yet authenticated offers a key
AuthOffer(i, key) ==
    /\ Idle(i) /\ auth_key[i] = "none"
    /\ pc' = [pc EXCEPT ![i] = "auth_lookup"]
    /\ local' = [local EXCEPT ![i].key = key]
    /\ UNCHANGED <<registry, sessions, history, server_id, mixed, opened, locks, conn, auth_key, chan,
                   teardown, result, events, renders>>

\* a gate that lists the connection under the offered key before the lookup
AuthLookupListsFirst(i) ==
    /\ pc[i] = "auth_lookup"
    /\ Free("key_data_to_user")
    /\ key_data_to_id' = PushId(key_data_to_id, local[i].key, i)
    /\ IF local[i].key \in DOMAIN key_data_to_user
       THEN /\ locks' = [locks EXCEPT !["key_data_to_user"] = i]
            /\ pc' = [pc EXCEPT ![i] = "auth_lock_id_to_user"]
            /\ UNCHANGED <<local, result>>
       ELSE /\ result' = [result EXCEPT ![i] = Result("reject")]
            /\ pc' = [pc EXCEPT ![i] = "idle"]
            /\ local' = [local EXCEPT ![i] = NoLocal]
            /\ UNCHANGED locks
    /\ UNCHANGED <<registry, clients, id_to_user, history, server_id, mixed, opened, conn, auth_key,
                   chan, teardown, events, renders>>

\* lines 309 and 323: lock key_data_to_user and look the offered key up; the
\* guard lives as long as the `if let`; an unknown key is rejected
AuthLookup(i) ==
    /\ pc[i] = "auth_lookup"
    /\ Free("key_data_to_user")
    /\ IF local[i].key \in DOMAIN key_data_to_user
       THEN /\ locks' = [locks EXCEPT !["key_data_to_user"] = i]
            /\ pc' = [pc EXCEPT ![i] = "auth_lock_id_to_user"]
            /\ UNCHANGED <<local, result>>
       ELSE /\ result' = [result EXCEPT ![i] = Result("reject")]
            /\ pc' = [pc EXCEPT ![i] = "idle"]
            /\ local' = [local EXCEPT ![i] = NoLocal]
            /\ UNCHANGED locks
    /\ UNCHANGED <<registry, sessions, history, server_id, mixed, opened, conn, auth_key, chan,
                   teardown, events, renders>>

\* line 311
AuthLockIdToUser(i) ==
    /\ pc[i] = "auth_lock_id_to_user"
    /\ Free("id_to_user")
    /\ locks' = [locks EXCEPT !["id_to_user"] = i]
    /\ pc' = [pc EXCEPT ![i] = "auth_lock_key_data_to_id"]
    /\ UNCHANGED <<registry, sessions, history, server_id, mixed, opened, conn, auth_key, chan,
                   teardown, local, result, events, renders>>

\* lines 312-321: lock key_data_to_id, bind, return Accept
AuthBind(i) ==
    /\ pc[i] = "auth_lock_key_data_to_id"
    /\ Free("key_data_to_id")
    /\ id_to_user' = BindEntity(id_to_user, i, key_data_to_user[local[i].key])
    /\ key_data_to_id' = PushId(key_data_to_id, local[i].key, i)
    /\ auth_key' = [auth_key EXCEPT ![i] = local[i].key]
    /\ locks' = ReleaseAll(i)
    /\ pc' = [pc EXCEPT ![i] = "idle"]
    /\ local' = [local EXCEPT ![i] = NoLocal]
    /\ result' = [result EXCEPT ![i] = Result("accept")]
    /\ UNCHANGED <<registry, clients, history, server_id, mixed, opened, conn, chan, teardown, events, renders>>

\* -------------------------------------------------- channel_open_session
\* lines 279-287
Title(entity) ==
    "[" \o entity.name \o "]" \o (IF entity.role = "Admin" THEN "-[admin]" ELSE "")

\* lines 274-300: a zero-sized viewport, an empty textarea
NewClientRecord(channel, title) ==
    [channel |-> channel, title |-> title, textarea |-> "",
     viewport |-> <<0, 0>>, frame |-> [lines |-> <<>>, textarea |-> ""]]

\* announce, line 190
JoinMessage(entity) ==
    entity.name \o " with " \o entity.role \o " privileges has joined"

\* lines 260-287: the transport calls the handler for every session channel
\* an authenticated connection asks for; self.entity() indexes id_to_user and
\* panics on a missing id
OpenTitle(i) ==
    /\ Idle(i) /\ auth_key[i] # "none"
    /\ events < MaxEvents \/ (~mixed /\ events < MaxQuietEvents)
    /\ events' = events + 1
    /\ Free("id_to_user")
    /\ IF i \in DOMAIN id_to_user
       THEN /\ pc' = [pc EXCEPT ![i] = "open_insert"]
            /\ local' = [local EXCEPT ![i].title = Title(id_to_user[i])]
            /\ opened' = [opened EXCEPT ![i] = @ + 1]
            /\ UNCHANGED <<locks, conn, chan, teardown, result>>
       ELSE /\ EndSession(i, Panic(185))
            /\ UNCHANGED opened
    /\ UNCHANGED <<registry, sessions, history, server_id, mixed, auth_key, renders>>

\* lines 292-301: insert replaces the record the id already has
OpenInsert(i) ==
    /\ pc[i] = "open_insert"
    /\ Free("clients")
    /\ clients' = MapInsert(clients, i, NewClientRecord(i, local[i].title))
    /\ pc' = [pc EXCEPT ![i] = "open_entity"]
    /\ local' = [local EXCEPT ![i] = NoLocal]
    /\ UNCHANGED <<registry, id_to_user, key_data_to_id, history, server_id, mixed, opened,
                   locks, conn, auth_key, chan, teardown, result, events, renders>>

\* lines 303 and 189: announce reads the entity; the guard of id_to_user is
\* dropped before the history is locked
OpenEntity(i) ==
    /\ pc[i] = "open_entity"
    /\ Free("id_to_user")
    /\ IF i \in DOMAIN id_to_user
       THEN /\ pc' = [pc EXCEPT ![i] = "open_announce"]
            /\ local' = [local EXCEPT ![i].entity = id_to_user[i]]
            /\ UNCHANGED <<locks, conn, chan, teardown, result>>
       ELSE EndSession(i, Panic(185))
    /\ UNCHANGED <<registry, sessions, history, server_id, mixed, opened, auth_key, events,
                   renders>>

\* lines 190-194 and 304: the join line is pushed under the mutex of the
\* history, which is held for the push alone; Ok(true) confirms the channel,
\* and a close that a reload has queued for it is still to be handled
OpenAnnounce(i) ==
    /\ pc[i] = "open_announce"
    /\ history' = Append(history, JoinMessage(local[i].entity))
    /\ chan' = [chan EXCEPT ![i] = IF @ = "closing" THEN "closing" ELSE "open"]
    /\ pc' = [pc EXCEPT ![i] = "idle"]
    /\ local' = [local EXCEPT ![i] = NoLocal]
    /\ result' = [result EXCEPT ![i] = Result("ok")]
    /\ UNCHANGED <<registry, sessions, server_id, mixed, opened, locks, conn, auth_key,
                   teardown, events, renders>>

\* ------------------------------------------------------------- teardown
\* a teardown that does not wait for the mutex of clients
TeardownTaskUnlocked(i) ==
    /\ i \in teardown
    /\ clients' = MapRemove(clients, i)
    /\ teardown' = teardown \ {i}
    /\ UNCHANGED <<registry, id_to_user, key_data_to_id, history, server_id, mixed, opened, locks,
                   pc, conn, auth_key, chan, local, result, events, renders>>

\* clients.remove(&id) of the task Drop spawns
RemoveClient(m, id) == MapRemove(m, id)

\* lines 420-423
TeardownTask(i) ==
    /\ i \in teardown
    /\ Free("clients")
    /\ clients' = RemoveClient(clients, i)
    /\ teardown' = teardown \ {i}
    /\ UNCHANGED <<registry, id_to_user, key_data_to_id, history, server_id, mixed, opened, locks,
                   pc, conn, auth_key, chan, local, result, events, renders>>

\* the transport loses the connection between two events
ConnectionLost(i) ==
    /\ Idle(i)
    /\ EndSession(i, result[i])
    /\ UNCHANGED <<registry, sessions, history, server_id, mixed, opened, auth_key, events, renders>>

\* a data event or a pty request arrives on a session channel of the
\* connection: the channel of its latest record, or an earlier one, which
\* nothing has closed
HasChannel(i) == chan[i] \in {"open", "closing"} \/ opened[i] >= 2

\* lines 333-335: Ctrl+C returns Err(Disconnect), which ends the session
DataCtrlC(i) ==
    /\ Idle(i) /\ HasChannel(i)
    /\ events < MaxEvents
    /\ events' = events + 1
    /\ mixed' = TRUE
    /\ EndSession(i, Result("Disconnect"))
    /\ UNCHANGED <<registry, sessions, history, server_id, opened, auth_key, renders>>

\* the session loop handles the close a reload queued with handle.close
ChannelClosed(i) ==
    /\ Idle(i) /\ chan[i] = "closing"
    /\ chan' = [chan EXCEPT ![i] = "closed"]
    /\ UNCHANGED <<registry, sessions, history, server_id, mixed, opened, locks, pc, conn, auth_key,
                   teardown, local, result, events, renders>>

\* ------------------------------------------------- check_role_and_reload
\* lines 359-365: the bytes of a data event parse as Ctrl-r
DataCtrlR(i) ==
    /\ Idle(i) /\ HasChannel(i)
    /\ events < MaxEvents \/ (~mixed /\ events < MaxQuietEvents)
    /\ events' = events + 1
    /\ pc' = [pc EXCEPT ![i] = "check_role"]
    /\ local' = [local EXCEPT ![i].data = "Ctrl-r"]
    /\ UNCHANGED <<registry, sessions, history, server_id, mixed, opened, locks, conn, auth_key, chan,
                   teardown, result, renders>>

\* a gate that lets every role reload
CheckRoleAnyone(i) ==
    /\ pc[i] = "check_role"
    /\ Free("id_to_user")
    /\ IF i \notin DOMAIN id_to_user
       THEN EndSession(i, Panic(134))
       ELSE /\ pc' = [pc EXCEPT ![i] = "reload_read"]
            /\ UNCHANGED <<locks, conn, chan, teardown, local, result>>
    /\ UNCHANGED <<registry, sessions, history, server_id, mixed, opened, auth_key, events, renders>>

\* lines 133-140: the guard of id_to_user is dropped at the end of the
\* condition; indexing id_to_user panics on a missing id
CheckRole(i) ==
    /\ pc[i] = "check_role"
    /\ Free("id_to_user")
    /\ IF i \notin DOMAIN id_to_user
       THEN EndSession(i, Panic(134))
       ELSE /\ pc' = [pc EXCEPT ![i] = IF id_to_user[i].role = "Admin"
                                        THEN "reload_read" ELSE "render"]
            /\ UNCHANGED <<locks, conn, chan, teardown, local, result>>
    /\ UNCHANGED <<registry, sessions, history, server_id, mixed, opened, auth_key, events, renders>>

\* lines 135 and 364: `?` hands the Err of reload to data, which returns it,
\* and the session ends
DataReturnsErr(i) ==
    /\ pc[i] = "data_err"
    /\ EndSession(i, result[i])
    /\ UNCHANGED <<registry, sessions, history, server_id, mixed, opened, auth_key, events, renders>>

\* ---------------------------------------------------------------- reload
\* line 143, the read fails: `?` returns Error::Authfile, data returns it
ReloadReadFails(i) ==
    /\ pc[i] = "reload_read"
    /\ pc' = [pc EXCEPT ![i] = "data_err"]
    /\ result' = [result EXCEPT ![i] = Result("Authfile")]
    /\ UNCHANGED <<events, registry, sessions, history, server_id, mixed, opened, locks, conn, auth_key, chan,
                   teardown, local, renders>>

\* line 143, the read succeeds
ReloadRead(i) ==
    /\ pc[i] = "reload_read"
    /\ \E k \in Keychains : local' = [local EXCEPT ![i].new_keychain = k]
    /\ pc' = [pc EXCEPT ![i] = "reload_lock"]
    /\ UNCHANGED <<events, registry, sessions, history, server_id, mixed, opened, locks, conn, auth_key, chan,
                   teardown, result, renders>>

\* line 155: key_data_pool.difference(&new_keychain.key_pool)
Strays(pool, new_pool) == pool \ new_pool

\* the mutex a connection is waiting for, or "none"
Wanted(i) ==
    CASE pc[i] = "reload_lock" -> LockOrder[local[i].held + 1]
      [] pc[i] = "auth_lookup" -> "key_data_to_user"
      [] pc[i] = "auth_lock_id_to_user" -> "id_to_user"
      [] pc[i] = "auth_lock_key_data_to_id" -> "key_data_to_id"
      [] OTHER -> "none"

\* lines 147-152: the six locks, one after the other; with the last one the
\* iteration over the strays starts
ReloadLock(i) ==
    /\ pc[i] = "reload_lock"
    /\ Free(Wanted(i))
    /\ locks' = [locks EXCEPT ![Wanted(i)] = i]
    /\ IF local[i].held + 1 = Len(LockOrder)
       THEN /\ pc' = [pc EXCEPT ![i] = "reload_strays"]
            /\ local' = [local EXCEPT
                           ![i].held = @ + 1,
                           ![i].old = Frozen,
                           ![i].strays = Strays(key_data_pool,
                                                local[i].new_keychain.key_pool)]
       ELSE /\ pc' = pc
            /\ local' = [local EXCEPT ![i].held = @ + 1]
    /\ UNCHANGED <<registry, sessions, history, server_id, mixed, opened, conn, auth_key, chan,
                   teardown, result, events, renders>>

\* lines 155-158: the next stray, in the HashSet's order; a stray without
\* an entry in key_data_to_id is skipped
ReloadNextStray(i) ==
    /\ pc[i] = "reload_strays"
    /\ \E s \in local[i].strays :
          IF s \in DOMAIN key_data_to_id
          THEN /\ local' = [local EXCEPT ![i].strays = @ \ {s}, ![i].stray = s,
                                         ![i].ids = key_data_to_id[s]]
               /\ pc' = [pc EXCEPT ![i] = "reload_ids"]
          ELSE /\ local' = [local EXCEPT ![i].strays = @ \ {s}]
               /\ pc' = pc
    /\ UNCHANGED <<registry, sessions, history, server_id, mixed, opened, locks, conn, auth_key, chan,
                   teardown, result, events, renders>>

\* handle.close(channel): the close is sent to the session's loop, which
\* fails exactly when that session has ended
CloseSucceeds(id) == conn[id] = "up"

\* lines 161-165: `&clients[id]` panics on a missing record; the close of
\* the record's channel is sent and awaited with the six guards held; a
\* failed close ends the reload with ClientDisconnectFailed
ReloadClose(i) ==
    /\ pc[i] = "reload_ids"
    /\ local[i].ids # <<>>
    /\ LET id == Head(local[i].ids) IN
         IF id \notin DOMAIN clients
         THEN EndSession(i, Panic(162))
         ELSE IF ~CloseSucceeds(id)
         THEN /\ locks' = ReleaseAll(i)
              /\ pc' = [pc EXCEPT ![i] = "data_err"]
              /\ result' = [result EXCEPT ![i] = ClientDisconnectFailed(id)]
              /\ local' = [local EXCEPT ![i].held = 0]
              /\ UNCHANGED <<conn, chan, teardown>>
         ELSE /\ chan' = [chan EXCEPT ![id] = "closing"]
              /\ pc' = [pc EXCEPT ![i] = "reload_remove"]
              /\ UNCHANGED <<locks, conn, teardown, result, local>>
    /\ UNCHANGED <<registry, sessions, history, server_id, mixed, opened, auth_key, events,
                   renders>>

\* lines 166-167: after the close has been sent the id loses its record and
\* its binding
ReloadRemove(i) ==
    /\ pc[i] = "reload_remove"
    /\ clients' = RemoveClient(clients, Head(local[i].ids))
    /\ id_to_user' = MapRemove(id_to_user, Head(local[i].ids))
    /\ local' = [local EXCEPT ![i].ids = Tail(@)]
    /\ pc' = [pc EXCEPT ![i] = "reload_ids"]
    /\ UNCHANGED <<registry, key_data_to_id, history, server_id, mixed, opened, locks, conn,
                   auth_key, chan, teardown, result, events, renders>>

\* line 169
ReloadForget(i) ==
    /\ pc[i] = "reload_ids"
    /\ local[i].ids = <<>>
    /\ key_data_to_id' = MapRemove(key_data_to_id, local[i].stray)
    /\ pc' = [pc EXCEPT ![i] = "reload_strays"]
    /\ local' = [local EXCEPT ![i].stray = "none"]
    /\ UNCHANGED <<registry, clients, id_to_user, history, server_id, mixed, opened, locks, conn,
                   auth_key, chan, teardown, result, events, renders>>

\* lines 172-176
ReloadCommitIndex(i) ==
    /\ pc[i] = "reload_strays"
    /\ local[i].strays = {}
    /\ key_data_to_user' = CollectByKey(local[i].new_keychain.entities)
    /\ pc' = [pc EXCEPT ![i] = "reload_commit_keychain"]
    /\ UNCHANGED <<keychain, key_data_pool, sessions, history, server_id, mixed, opened, locks, conn,
                   auth_key, chan, teardown, local, result, events, renders>>

\* line 177
ReloadCommitKeychain(i) ==
    /\ pc[i] = "reload_commit_keychain"
    /\ keychain' = local[i].new_keychain.entities
    /\ pc' = [pc EXCEPT ![i] = "reload_commit_pool"]
    /\ UNCHANGED <<key_data_to_user, key_data_pool, sessions, history, server_id, mixed, opened, locks,
                   conn, auth_key, chan, teardown, local, result, events, renders>>

\* a commit that keeps the old pool
NewPoolKept(new_keychain) == key_data_pool

\* the key pool a reload publishes, line 178
NewPool(new_keychain) == new_keychain.key_pool

\* lines 178-181: the pool, then the guards are dropped and reload returns Ok
ReloadCommitPool(i) ==
    /\ pc[i] = "reload_commit_pool"
    /\ key_data_pool' = NewPool(local[i].new_keychain)
    /\ locks' = ReleaseAll(i)
    /\ pc' = [pc EXCEPT ![i] = "render"]
    /\ local' = [local EXCEPT ![i].held = 0, ![i].committed = TRUE]
    /\ UNCHANGED <<keychain, key_data_to_user, sessions, history, server_id, mixed, opened, conn,
                   auth_key, chan, teardown, result, events, renders>>

\* ------------------------------------------------------------------ data
Chars == {"a"}

\* lines 340-353: the text of the textarea is taken and the textarea cleared;
\* get_mut(&self.id).unwrap() panics on a missing record
SubmitTake(i) ==
    /\ Idle(i) /\ HasChannel(i)
    /\ events < MaxEvents
    /\ events' = events + 1
    /\ mixed' = TRUE
    /\ Free("clients")
    /\ IF i \in DOMAIN clients
       THEN /\ local' = [local EXCEPT ![i].data = "Alt+Return",
                                         ![i].text = clients[i].textarea]
            /\ clients' = [clients EXCEPT ![i].textarea = ""]
            /\ pc' = [pc EXCEPT ![i] = "submit_entity"]
            /\ UNCHANGED <<locks, conn, chan, teardown, result>>
       ELSE /\ EndSession(i, Panic(341))
            /\ UNCHANGED clients
    /\ UNCHANGED <<registry, id_to_user, key_data_to_id, history, server_id, opened, auth_key,
                   renders>>

\* a message that leaves the brackets out
ChatMessageBare(name, text) == name \o ": " \o text

\* line 355
ChatMessage(name, text) == "[" \o name \o "]: " \o text

\* line 354: self.entity() indexes id_to_user and panics on a missing id; the
\* guard is dropped before the history is locked
SubmitEntity(i) ==
    /\ pc[i] = "submit_entity"
    /\ Free("id_to_user")
    /\ IF i \in DOMAIN id_to_user
       THEN /\ pc' = [pc EXCEPT ![i] = "submit_push"]
            /\ local' = [local EXCEPT ![i].entity = id_to_user[i]]
            /\ UNCHANGED <<locks, conn, chan, teardown, result>>
       ELSE EndSession(i, Panic(185))
    /\ UNCHANGED <<registry, sessions, history, server_id, mixed, opened, auth_key, renders,
                   events>>

\* lines 355-356: the message is pushed under the mutex of the history
SubmitPush(i) ==
    /\ pc[i] = "submit_push"
    /\ history' = Append(history, ChatMessage(local[i].entity.name, local[i].text))
    /\ pc' = [pc EXCEPT ![i] = "submit_input"]
    /\ local' = [local EXCEPT ![i].text = "", ![i].entity = NoEntity]
    /\ UNCHANGED <<registry, sessions, server_id, mixed, opened, locks, conn, auth_key, chan,
                   teardown, result, renders, events>>

\* lines 359-374: the bytes of Alt+Return parse as a key, which is given to
\* the textarea of the connection's record; the key inserts nothing
SubmitInput(i) ==
    /\ pc[i] = "submit_input"
    /\ Free("clients")
    /\ IF i \in DOMAIN clients
       THEN /\ pc' = [pc EXCEPT ![i] = "render"]
            /\ UNCHANGED <<locks, conn, chan, teardown, local, result>>
       ELSE EndSession(i, Panic(371))
    /\ UNCHANGED <<registry, sessions, history, server_id, mixed, opened, auth_key, renders, events>>

\* lines 366-374: a printable key is typed into the textarea
DataKey(i, c) ==
    /\ Idle(i) /\ HasChannel(i)
    /\ events < MaxEvents
    /\ events' = events + 1
    /\ mixed' = TRUE
    /\ Free("clients")
    /\ IF i \in DOMAIN clients
       THEN /\ Len(clients[i].textarea) < MaxText
            /\ clients' = [clients EXCEPT ![i].textarea = @ \o c]
            /\ pc' = [pc EXCEPT ![i] = "render"]
            /\ local' = [local EXCEPT ![i].data = c]
            /\ UNCHANGED <<locks, conn, chan, teardown, result>>
       ELSE /\ EndSession(i, Panic(371))
            /\ UNCHANGED clients
    /\ UNCHANGED <<registry, id_to_user, key_data_to_id, history, server_id, opened, auth_key,
                   renders>>

\* lines 359 and 375-377: an empty payload, or bytes that parse as no event,
\* touch no record; data goes on to render
DataIgnored(i) ==
    /\ Idle(i) /\ HasChannel(i)
    /\ events < MaxEvents
    /\ events' = events + 1
    /\ mixed' = TRUE
    /\ pc' = [pc EXCEPT ![i] = "render"]
    /\ UNCHANGED <<registry, sessions, history, server_id, opened, locks, conn,
                   auth_key, chan, teardown, local, result, renders>>

\* ----------------------------------------------------------- pty_request
U16 == 65536

\* the (col_width, row_height) pairs a client asks for
PtySizes == {<<80, 24>>, <<65616, 24>>}

\* lines 396-401: `as u16` truncates
Rect(col_width, row_height) == <<col_width % U16, row_height % U16>>

\* lines 403-412: get_mut(&self.id).unwrap() panics on a missing record; the
\* terminal is resized; when session.channel_success fails, `?` returns
\* Error::Russh without a redraw and the session ends
PtyRequest(i, size) ==
    /\ Idle(i) /\ HasChannel(i)
    /\ events < MaxEvents
    /\ events' = events + 1
    /\ mixed' = TRUE
    /\ Free("clients")
    /\ IF i \in DOMAIN clients
       THEN /\ clients' = [clients EXCEPT ![i].viewport = Rect(size[1], size[2])]
            /\ \/ /\ pc' = [pc EXCEPT ![i] = "render"]
                  /\ UNCHANGED <<locks, conn, chan, teardown, local, result>>
               \/ EndSession(i, Result("Russh"))
       ELSE /\ EndSession(i, Panic(405))
            /\ UNCHANGED clients
    /\ UNCHANGED <<registry, id_to_user, key_data_to_id, history, server_id, opened,
                   auth_key, renders>>

\* ---------------------------------------------------------------- render
RenderLimit == 20

\* history.iter().rev().take(20).rev()
LastLines(h) ==
    IF Len(h) <= RenderLimit THEN h ELSE SubSeq(h, Len(h) - RenderLimit + 1, Len(h))

\* tokio::spawn, line 210: one more task holds the captured lines
Spawn(tasks, lines) ==
    MapInsert(tasks, lines, IF lines \in DOMAIN tasks THEN tasks[lines] + 1 ELSE 1)

\* one task that holds the captured lines has run to its end
Finish(tasks, lines) ==
    IF tasks[lines] = 1 THEN MapRemove(tasks, lines)
    ELSE [tasks EXCEPT ![lines] = @ - 1]

\* lines 197-210 and 381-382 (410-412): the tail of the history is captured,
\* the redraw is spawned and the handler returns Ok
Render(i) ==
    /\ pc[i] = "render"
    /\ renders' = Spawn(renders, LastLines(history))
    /\ pc' = [pc EXCEPT ![i] = "idle"]
    /\ local' = [local EXCEPT ![i] = NoLocal]
    /\ result' = [result EXCEPT ![i] = Result("ok")]
    /\ UNCHANGED <<registry, sessions, history, server_id, mixed, opened, locks, conn, auth_key, chan,
                   teardown, events>>

\* lines 218-239: what a terminal shows after a draw
Frame(lines, client) == [lines |-> lines, textarea |-> client.textarea]

\* lines 210-241: the spawned redraw draws every record of clients
RenderTask(lines) ==
    /\ lines \in DOMAIN renders
    /\ Free("clients")
    /\ clients' = [j \in DOMAIN clients |->
                     [clients[j] EXCEPT !.frame = Frame(lines, clients[j])]]
    /\ renders' = Finish(renders, lines)
    /\ UNCHANGED <<registry, id_to_user, key_data_to_id, history, server_id, mixed, opened, locks, pc,
                   conn, auth_key, chan, teardown, local, result, events>>

\* --------------------------------------------------------- specification
Next ==
    \/ NewClient
    \/ \E i \in Ids, key \in Keys : AuthOffer(i, key)
    \/ \E i \in Ids : AuthLookup(i)
    \/ \E i \in Ids : AuthLockIdToUser(i)
    \/ \E i \in Ids : AuthBind(i)
    \/ \E i \in Ids : OpenTitle(i)
    \/ \E i \in Ids : OpenInsert(i)
    \/ \E i \in Ids : OpenEntity(i)
    \/ \E i \in Ids : OpenAnnounce(i)
    \/ \E i \in Ids : TeardownTask(i)
    \/ \E i \in Ids : ConnectionLost(i)
    \/ \E i \in Ids : DataCtrlC(i)
    \/ \E i \in Ids : ChannelClosed(i)
    \/ \E i \in Ids : DataCtrlR(i)
    \/ \E i \in Ids : CheckRole(i)
    \/ \E i \in Ids : DataReturnsErr(i)
    \/ \E i \in Ids : ReloadReadFails(i)
    \/ \E i \in Ids : ReloadRead(i)
    \/ \E i \in Ids : ReloadLock(i)
    \/ \E i \in Ids : ReloadNextStray(i)
    \/ \E i \in Ids : ReloadClose(i)
    \/ \E i \in Ids : ReloadRemove(i)
    \/ \E i \in Ids : ReloadForget(i)
    \/ \E i \in Ids : ReloadCommitIndex(i)
    \/ \E i \in Ids : ReloadCommitKeychain(i)
    \/ \E i \in Ids : ReloadCommitPool(i)
    \/ \E i \in Ids : SubmitTake(i)
    \/ \E i \in Ids : SubmitEntity(i)
    \/ \E i \in Ids : SubmitPush(i)
    \/ \E i \in Ids : SubmitInput(i)
    \/ \E i \in Ids, c \in Chars : DataKey(i, c)
    \/ \E i \in Ids : DataIgnored(i)
    \/ \E i \in Ids, size \in PtySizes : PtyRequest(i, size)
    \/ \E i \in Ids : Render(i)
    \/ \E lines \in DOMAIN renders : RenderTask(lines)

Spec == Init /\ [][Next]_vars

\* ------------------------------------------------------------ properties
ChannelOpen(i) == chan[i] \in {"open", "closing"}

\* a reload has frozen the maps and neither committed nor aborted
Reloading(i) ==
    pc[i] \in {"reload_strays", "reload_ids", "reload_remove",
               "reload_commit_keychain", "reload_commit_pool"}

\* reload has just returned Ok to data
AfterReload(i) == pc[i] = "render" /\ local[i].committed

TeardownFinished == \E i \in Ids : conn[i] = "gone" /\ i \notin teardown

\* the forced disconnect a reload is about to issue fails
DisconnectFails(i) ==
    /\ pc[i] = "reload_ids"
    /\ local[i].ids # <<>>
    /\ Head(local[i].ids) \in DOMAIN clients
    /\ conn[Head(local[i].ids)] # "up"

\* C1: after a completed reload or a finished teardown (and while no reload
\* is inside its critical section), every id listed in the reverse index
\* under a key belongs to a live connection that was authenticated under
\* that key and has its record once its channel is open; no terminated
\* session stays listed.
C1_ReverseIndexLive ==
    ((TeardownFinished \/ \E i \in Ids : AfterReload(i))
        /\ \A i \in Ids : ~Reloading(i))
    => \A k \in DOMAIN key_data_to_id : \A id \in Range(key_data_to_id[k]) :
          /\ conn[id] = "up"
          /\ auth_key[id] = k
          /\ ChannelOpen(id) => id \in DOMAIN clients

\* C2: in the state right after a reload has completed, no session record
\* and no id -> Entity binding belongs to a connection authenticated under a
\* key outside the key pool, and every connection authenticated under a key
\* of (old pool minus new pool) has been force-disconnected and removed.
C2_NoSessionOutsidePool ==
    [][\A i \in Ids :
          (pc[i] = "reload_commit_pool" /\ pc'[i] = "render") =>
             /\ \A id \in (DOMAIN clients') \cup (DOMAIN id_to_user') :
                   auth_key'[id] \in key_data_pool'
             /\ \A id \in Ids :
                   auth_key'[id] \in
                       (local[i].old.key_data_pool \ local[i].new_keychain.key_pool)
                   => /\ id \notin DOMAIN clients'
                      /\ id \notin DOMAIN id_to_user'
                      /\ chan'[id] \in {"closing", "closed"}]_vars

\* C3: in every state another operation can observe, that is unless a reload
\* holding the locks of both structures is between its assignments, the keys
\* of the key -> Entity index are the key pool.
C3_IndexKeysArePool ==
    \/ DOMAIN key_data_to_user = key_data_pool
    \/ \E i \in Ids : /\ pc[i] \in {"reload_commit_keychain", "reload_commit_pool"}
                      /\ locks["key_data_to_user"] = i
                      /\ locks["key_data_pool"] = i

\* a reload has completed that changed the key pool
C3_Witness ==
    \E i \in Ids : /\ AfterReload(i)
                   /\ key_data_pool # local[i].old.key_data_pool
                   /\ key_data_pool = local[i].new_keychain.key_pool
                   /\ DOMAIN key_data_to_user = key_data_pool

\* C4: when the forced disconnect of a stray session fails, the reload ends
\* with the error ClientDisconnectFailed naming that session, and the entity
\* list, the key -> Entity index and the key pool hold their pre-reload values.
C4_FailedDisconnectKeepsRegistry ==
    [][\A i \in Ids :
          (DisconnectFails(i) /\ pc'[i] # pc[i]) =>
             /\ pc'[i] = "data_err"
             /\ result'[i] = [kind |-> "ClientDisconnectFailed",
                              id |-> Head(local[i].ids), line |-> 0]
             /\ keychain' = local[i].old.keychain
             /\ key_data_to_user' = local[i].old.key_data_to_user
             /\ key_data_pool' = local[i].old.key_data_pool]_vars

\* a reload has ended with ClientDisconnectFailed for a session it found
C4_Witness ==
    \E i \in Ids :
       /\ pc[i] = "data_err"
       /\ result[i].kind = "ClientDisconnectFailed"
       /\ result[i].id \in DOMAIN local[i].old.clients
       /\ local[i].new_keychain.key_pool # key_data_pool

\* C5: when the forced disconnect of one stray session fails, every other
\* session has in the session table, the id -> Entity bindings and the
\* reverse index exactly what it had when the reload froze the maps.
C5_FailedDisconnectAffectsNoOther ==
    [][\A i \in Ids :
          (DisconnectFails(i) /\ pc'[i] # pc[i]) =>
             /\ \A j \in Ids \ {Head(local[i].ids)} :
                   /\ j \in DOMAIN clients' <=> j \in DOMAIN local[i].old.clients
                   /\ j \in DOMAIN clients' => clients'[j] = local[i].old.clients[j]
                   /\ j \in DOMAIN id_to_user' <=> j \in DOMAIN local[i].old.id_to_user
                   /\ j \in DOMAIN id_to_user' =>
                         id_to_user'[j] = local[i].old.id_to_user[j]
             /\ key_data_to_id' = local[i].old.key_data_to_id]_vars

\* C6: when the read of the authorization file fails, reload returns the
\* load error and the entity list, the key -> Entity index, the key pool, the
\* session table, the id -> Entity bindings and the reverse index are
\* unchanged; no session is disconnected, neither by the failed read nor by
\* the return of the load error through check_role_and_reload and data.
C6_FailedLoadChangesNothing ==
    [][\A i \in Ids :
          /\ (pc[i] = "reload_read" /\ pc'[i] = "data_err") =>
                /\ result'[i] = [kind |-> "Authfile", id |-> NoOne, line |-> 0]
                /\ UNCHANGED <<keychain, key_data_to_user, key_data_pool, clients,
                               id_to_user, key_data_to_id, chan, conn, teardown,
                               locks>>
          /\ (/\ pc[i] = "data_err" /\ result[i].kind = "Authfile"
              /\ pc'[i] # "data_err") =>
                UNCHANGED <<clients, id_to_user, key_data_to_id, chan, conn,
                            teardown>>]_vars

\* C7: the reload gesture of a session whose entity is not Admin reads no
\* authorization file, leaves the registry and the sessions unchanged,
\* disconnects nobody, and data goes on to render and returns Ok.
C7_StandardReloadIsNoOp ==
    [][\A i \in Ids :
          /\ (/\ pc[i] = "check_role"
              /\ i \in DOMAIN id_to_user
              /\ id_to_user[i].role # "Admin"
              /\ pc'[i] # pc[i]) =>
                /\ pc'[i] = "render"
                /\ UNCHANGED <<keychain, key_data_to_user, key_data_pool, clients,
                               id_to_user, key_data_to_id, chan, conn, teardown,
                               locks>>
          /\ (pc[i] = "render" /\ pc'[i] # pc[i]) =>
                /\ pc'[i] = "idle"
                /\ result'[i].kind = "ok"
                /\ conn'[i] = "up"]_vars

\* a Standard session's reload gesture has passed the role check
C7_Witness ==
    \E i \in Ids : /\ pc[i] = "render"
                   /\ local[i].data = "Ctrl-r"
                   /\ ~local[i].committed
                   /\ i \in DOMAIN id_to_user
                   /\ id_to_user[i].role = "Standard"

\* C8: an offered key that is not in the key -> Entity index is rejected, and
\* the id -> Entity bindings, the reverse index and the session table are
\* unchanged.
C8_UnknownKeyRejected ==
    [][\A i \in Ids :
          (/\ pc[i] = "auth_lookup"
           /\ local[i].key \notin DOMAIN key_data_to_user
           /\ pc'[i] # pc[i]) =>
             /\ pc'[i] = "idle"
             /\ result'[i].kind = "reject"
             /\ auth_key'[i] = "none"
             /\ UNCHANGED <<clients, id_to_user, key_data_to_id>>]_vars

\* a connection has been rejected and has no session state
C8_Witness ==
    \E i \in Ids : /\ result[i].kind = "reject"
                   /\ pc[i] = "idle"
                   /\ conn[i] = "up"
                   /\ i \notin DOMAIN id_to_user

\* a connection waits for a mutex that another connection holds
Waiting(i) == Wanted(i) # "none" /\ locks[Wanted(i)] \notin {NoOne, i}

\* C9: no set of operations waits on each other's locks forever: there is
\* never a set of connections each waiting for a mutex held by a member of
\* the set.
C9_NoLockCycle ==
    ~ \E S \in (SUBSET Ids) \ {{}} :
         \A i \in S : Waiting(i) /\ locks[Wanted(i)] \in S

\* C10: between events (no handler is running), the ids with a record in the
\* session table are the connections whose channel is open.
C10_RecordsAreOpenChannels ==
    (\A i \in Ids : pc[i] = "idle")
    => DOMAIN clients = {i \in Ids : ChannelOpen(i)}

\* the step is one of connection i's handler
Moves(i) == pc'[i] # pc[i] \/ local'[i] # local[i]

\* C11: a session that a reload revokes (its record is in the session table
\* when the reload reaches its id) gets one forced disconnect, which it did
\* not get before, then one removal from the session table and the
\* id -> Entity bindings, and the reload goes on, also when the session's own
\* teardown task is pending.
C11_RevokedOnceAndReloadGoesOn ==
    [][\A i \in Ids :
          /\ (/\ pc[i] = "reload_ids"
              /\ local[i].ids # <<>>
              /\ Head(local[i].ids) \in DOMAIN clients
              /\ Moves(i)) =>
                /\ pc'[i] = "reload_remove"
                /\ chan[Head(local[i].ids)] \notin {"closing", "closed"}
                /\ chan'[Head(local[i].ids)] = "closing"
          /\ (pc[i] = "reload_remove" /\ Moves(i)) =>
                /\ pc'[i] = "reload_ids"
                /\ Head(local[i].ids) \notin DOMAIN clients'
                /\ Head(local[i].ids) \notin DOMAIN id_to_user']_vars

\* C15: once the teardown of a connection has completed, its id is in neither
\* the session table nor the id -> Entity bindings.
C15_TeardownRemovesRecordAndBinding ==
    \A i \in Ids :
       (conn[i] = "gone" /\ i \notin teardown) =>
          i \notin DOMAIN clients /\ i \notin DOMAIN id_to_user

\* C16: authentication goes on to accept exactly when the offered key is in
\* the key -> Entity index, and accepting binds the id to the entity the index
\* maps the key to and appends the id to the reverse index under that key,
\* leaving every other binding and reverse-index entry as it was.
C16_AcceptBindsIndexedEntity ==
    [][\A i \in Ids :
          /\ (pc[i] = "auth_lookup" /\ Moves(i)) =>
                IF local[i].key \in DOMAIN key_data_to_user
                THEN pc'[i] = "auth_lock_id_to_user" /\ locks'["key_data_to_user"] = i
                ELSE pc'[i] = "idle" /\ result'[i].kind = "reject"
          /\ (pc[i] = "auth_lock_key_data_to_id" /\ Moves(i)) =>
                LET key == local[i].key IN
                /\ result'[i].kind = "accept"
                /\ key \in DOMAIN key_data_to_user
                /\ DOMAIN id_to_user' = (DOMAIN id_to_user) \cup {i}
                /\ id_to_user'[i] = key_data_to_user[key]
                /\ \A j \in DOMAIN id_to_user : j # i => id_to_user'[j] = id_to_user[j]
                /\ DOMAIN key_data_to_id' = (DOMAIN key_data_to_id) \cup {key}
                /\ key_data_to_id'[key] =
                      (IF key \in DOMAIN key_data_to_id
                       THEN key_data_to_id[key] ELSE <<>>) \o <<i>>
                /\ \A k \in DOMAIN key_data_to_id :
                      k # key => key_data_to_id'[k] = key_data_to_id[k]
                /\ UNCHANGED <<clients, keychain, key_data_to_user, key_data_pool>>]_vars

\* a second connection has been accepted under a key that already lists one
C16_Witness ==
    \E i \in Ids, k \in DOMAIN key_data_to_id :
       /\ result[i].kind = "accept"
       /\ Len(key_data_to_id[k]) = 2
       /\ key_data_to_id[k][2] = i
       /\ id_to_user[i] = key_data_to_user[k]

\* C17: while a reload is between freezing the maps and its commit or abort,
\* every change of the six shared structures is a step of that reload, no
\* authentication looks a key up, and a connection is only ever accepted
\* under a key of the key pool while no reload is in that section.
C17_ReloadIsolated ==
    [][/\ \A i \in Ids :
            Reloading(i) =>
               /\ (~UNCHANGED <<keychain, key_data_to_user, key_data_pool, clients,
                               id_to_user, key_data_to_id>>) => Moves(i)
               /\ \A j \in Ids \ {i} :
                     pc[j] \in {"auth_lookup", "auth_lock_id_to_user",
                                "auth_lock_key_data_to_id"} => pc'[j] = pc[j]
       /\ \A j \in Ids :
            (pc[j] = "auth_lock_key_data_to_id" /\ Moves(j)) =>
               /\ local[j].key \in key_data_pool
               /\ local[j].key \in DOMAIN key_data_to_user
               /\ \A i \in Ids : ~Reloading(i)]_vars

\* a reload is revoking while a teardown and an authentication are waiting
C17_Witness ==
    \E i \in Ids, j \in Ids :
       /\ pc[i] = "reload_ids"
       /\ j # i
       /\ \/ j \in teardown /\ j \in DOMAIN clients
          \/ pc[j] = "auth_lookup"

\* C18: whenever a reload has looked up the ids of a stray key, each of them
\* has a record in the session table.
C18_StrayIdsHaveRecords ==
    \A i \in Ids :
       pc[i] = "reload_ids" =>
          \A id \in Range(local[i].ids) : id \in DOMAIN clients

\* C19: a data event that a connection's handler processes finds the
\* connection's session record and id -> Entity binding.
C19_DataFindsRecordAndBinding ==
    \A i \in Ids :
       pc[i] = "check_role" =>
          i \in DOMAIN clients /\ i \in DOMAIN id_to_user

\* C20: after a completed reload, the entity bound to each surviving session
\* is the entity (name and role) the new index maps the session's key to.
C20_SurvivorsBoundToNewEntity ==
    \A i \in Ids :
       AfterReload(i) =>
          \A id \in DOMAIN id_to_user :
             auth_key[id] \in DOMAIN key_data_to_user =>
                id_to_user[id] = key_data_to_user[auth_key[id]]

\* the texts a textarea can hold
RECURSIVE TextsUpTo(_)
TextsUpTo(n) ==
    IF n = 0 THEN {""}
    ELSE TextsUpTo(n - 1) \cup {t \o c : t \in TextsUpTo(n - 1), c \in Chars}

\* the line is a submitted message
Submitted(line) ==
    \E e \in EntityUniverse, t \in TextsUpTo(MaxText) : line = ChatMessage(e.name, t)

\* C12: a submission takes the text of the submitting session's textarea,
\* reads the entity bound to the submitting session id and appends the one
\* entry "[name]: text" at the end of the history, name being the name of that
\* entity; no other step of the submission changes the history, and every
\* step keeps the entries the history had, in their order.
C12_SubmitAppendsOwnMessage ==
    [][/\ \A i \in Ids :
            /\ (pc[i] = "idle" /\ pc'[i] = "submit_entity") =>
                  /\ local'[i].text = clients[i].textarea
                  /\ history' = history
            /\ (pc[i] = "submit_entity" /\ pc'[i] = "submit_push") =>
                  /\ local'[i].entity = id_to_user[i]
                  /\ local'[i].text = local[i].text
                  /\ history' = history
            /\ (pc[i] = "submit_push" /\ Moves(i)) =>
                  /\ history' = Append(history,
                                       "[" \o local[i].entity.name \o "]: "
                                           \o local[i].text)
                  /\ i \in DOMAIN id_to_user => id_to_user[i] = local[i].entity
            /\ (pc[i] \in {"submit_input", "render"} /\ Moves(i)) => history' = history
       /\ Len(history') >= Len(history)
       /\ SubSeq(history', 1, Len(history)) = history]_vars

\* a typed text has been submitted by one of two sessions that share a key
C12_Witness ==
    \E i \in Ids, j \in Ids :
       /\ i # j
       /\ pc[i] = "submit_input"
       /\ auth_key[i] = auth_key[j]
       /\ j \in DOMAIN clients
       /\ Len(history) = 3
       /\ history[3] = "[" \o id_to_user[i].name \o "]: a"

\* C13: when the last entry of the history is a submitted message, every
\* handler has returned and every spawned redraw has run, the frame of every
\* session in the session table shows the last min(20, n) entries of the
\* history.
C13_LastFrameShowsHistory ==
    (/\ renders = EmptyMap
     /\ \A i \in Ids : pc[i] = "idle"
     /\ history # <<>>
     /\ Submitted(history[Len(history)])) =>
        \A j \in DOMAIN clients : clients[j].frame.lines = LastLines(history)

\* C14: a resize of a session that has a record changes only the viewport
\* of that record and leaves every other record as it was; a resize of a
\* session that has no record in the session table changes no state and
\* raises no failure.
C14_ResizeUnknownIsNoOp ==
    [][\A i \in Ids, size \in PtySizes :
          PtyRequest(i, size) =>
             IF i \in DOMAIN clients
             THEN /\ DOMAIN clients' = DOMAIN clients
                  /\ \A j \in DOMAIN clients \ {i} : clients'[j] = clients[j]
                  /\ clients'[i] =
                        [clients[i] EXCEPT !.viewport = clients'[i].viewport]
             ELSE /\ result'[i].kind # "panic"
                  /\ conn'[i] = conn[i]
                  /\ UNCHANGED <<clients, id_to_user, key_data_to_id, history,
                                 registry, chan>>]_vars

====
